---- MODULE Spec2Model ----
(***************************************************************************)
(* A model of package autosite (hkjn/autosite): the page registry of a     *)
(* Site built by New from the template files a glob finds, its mutation by *)
(* ChangeURI and AddRedirect, the wiring of handlers by Register and the   *)
(* serving of requests by page.ServeHTTP.                                  *)
(*                                                                         *)
(* Go strings are sequences of one-character strings, so that Split,       *)
(* Contains, TrimSuffix, Join and ParseInt are computed as the library     *)
(* computes them.  The revision with redirects is the one modelled; the    *)
(* earlier revision (autosite.go) has the same New, ChangeURI, Register,   *)
(* read, getFiles, parsePath and getDate.  URIs and redirect targets are   *)
(* absolute paths (or the empty redirect target), for which http.Handle    *)
(* accepts the pattern and http.Redirect sends the target unchanged.       *)
(***************************************************************************)
EXTENDS Integers, Sequences, FiniteSets, TLC

VARIABLES
    status,   \* "start" before New, "running" once New returned, "exited" after log.Fatal / panic
    dev,      \* appengine.IsDevAppServer()
    pages,    \* Site.pages: URI -> page
    mux,      \* http.DefaultServeMux: pattern -> page value handed to http.Handle
    reqs,     \* per worker: the request a ServeHTTP call is serving, and its response
    nOps,     \* number of ChangeURI / AddRedirect calls made
    last      \* the last call made on the Site, with its arguments

vars == <<status, dev, pages, mux, reqs, nOps, last>>

----------------------------------------------------------------------------
(* Bounds *)

\* most paths a glob expansion returns
MaxFiles == 2
\* most ChangeURI / AddRedirect calls in a run
MaxOps == 2
\* concurrent request workers
MaxWorkers == 1

(* Program constants *)

\* getDate: y64 <= 1900 is a bad year
YearLow == 1900
\* getDate: y64 >= 99999 is a bad year
YearHigh == 99999
\* getDate: month < 1 is a bad month
MonthLow == 1
\* getDate: month > 12 is a bad month
MonthHigh == 12
\* strconv.ParseInt(_, 10, 0): the largest int of a 32-bit build
IntMax == 2147483647
\* http.StatusNotFound, http.StatusFound, http.StatusInternalServerError, 200
StatusNotFound == 404
StatusFound == 302
StatusInternalServerError == 500
StatusOK == 200

----------------------------------------------------------------------------
(* Strings *)

\* The empty string.
Empty == <<>>

\* strings.Contains(s, sub)
Contains(s, sub) ==
    \E i \in 1..(Len(s) - Len(sub) + 1) : SubSeq(s, i, i + Len(sub) - 1) = sub

\* strings.HasSuffix(s, suf)
HasSuffix(s, suf) ==
    /\ Len(s) >= Len(suf)
    /\ SubSeq(s, Len(s) - Len(suf) + 1, Len(s)) = suf

\* strings.TrimSuffix(s, suf)
TrimSuffix(s, suf) ==
    IF HasSuffix(s, suf) THEN SubSeq(s, 1, Len(s) - Len(suf)) ELSE s

\* strings.Split(s, sep) for a one-character sep: the fields between the
\* separators, n+1 of them for n separators.
RECURSIVE SplitFrom(_, _, _)
SplitFrom(s, sep, cur) ==
    IF s = <<>> THEN <<cur>>
    ELSE IF Head(s) = sep THEN <<cur>> \o SplitFrom(Tail(s), sep, <<>>)
    ELSE SplitFrom(Tail(s), sep, Append(cur, Head(s)))

Split(s, sep) == SplitFrom(s, sep, <<>>)

\* strings.Join(parts, sep) for a one-character sep
RECURSIVE Join(_, _)
Join(parts, sep) ==
    IF parts = <<>> THEN <<>>
    ELSE IF Len(parts) = 1 THEN parts[1]
    ELSE parts[1] \o <<sep>> \o Join(Tail(parts), sep)

Digits == {"0", "1", "2", "3", "4", "5", "6", "7", "8", "9"}

DigitVal(c) ==
    CASE c = "0" -> 0 [] c = "1" -> 1 [] c = "2" -> 2 [] c = "3" -> 3
      [] c = "4" -> 4 [] c = "5" -> 5 [] c = "6" -> 6 [] c = "7" -> 7
      [] c = "8" -> 8 [] c = "9" -> 9

\* The digits of ds accumulated onto acc; -1 once the value passes IntMax.
RECURSIVE Accumulate(_, _)
Accumulate(ds, acc) ==
    IF ds = <<>> THEN acc
    ELSE IF acc > (IntMax - DigitVal(Head(ds))) \div 10 THEN -1
    ELSE Accumulate(Tail(ds), acc * 10 + DigitVal(Head(ds)))

\* strconv.ParseInt(s, 10, 0): an optional sign, then one or more decimal
\* digits; a syntax error otherwise, a range error past the int range.
ParseInt(s) ==
    LET signed == s # <<>> /\ Head(s) \in {"+", "-"}
        ds     == IF signed THEN Tail(s) ELSE s
        neg    == signed /\ Head(s) = "-"
    IN  IF ds = <<>> \/ \E i \in 1..Len(ds) : ds[i] \notin Digits
        THEN [err |-> TRUE, val |-> 0]
        ELSE LET n == Accumulate(ds, 0)
             IN  IF n < 0 THEN [err |-> TRUE, val |-> IF neg THEN -IntMax - 1 ELSE IntMax]
                 ELSE [err |-> FALSE, val |-> IF neg THEN -n ELSE n]

----------------------------------------------------------------------------
(* Types *)

\* date{}: the zero date
ZeroDate == [Year |-> 0, Month |-> 0]

\* a nil *template.Template
NilTmpl == [nil |-> TRUE, files |-> <<>>]

\* the template compiled from the files tmpls
Compiled(tmpls) == [nil |-> FALSE, files |-> tmpls]

\* New's arguments: title, liveDomain, templates
SiteTitle == "Some title"
LiveDomain == <<"d", ".", "c", "o", "m">>
SharedTemplates == << <<"b", "a", "s", "e", ".", "t", "m", "p", "l">> >>

\* the suffix parsePath trims
TmplExt == <<".", "t", "m", "p", "l">>

\* the marker getFiles skips
DotHash == <<".", "#">>

----------------------------------------------------------------------------
(* Path parsing *)

\* getDate(y, m)
getDate(y, m) ==
    LET y64   == ParseInt(y)
        month == ParseInt(m)
    IN  IF y64.err \/ y64.val <= YearLow \/ y64.val >= YearHigh
        THEN [d |-> ZeroDate, err |-> "bad year"]
        ELSE IF month.err \/ month.val < MonthLow \/ month.val > MonthHigh
        THEN [d |-> ZeroDate, err |-> "bad month"]
        ELSE [d |-> [Year |-> y64.val, Month |-> month.val], err |-> "nil"]

\* The URI parsePath builds for a four-segment path.
DatedURI(parts) ==
    <<"/">> \o Join(<<parts[2], parts[3], TrimSuffix(parts[4], TmplExt)>>, "/")

\* parsePath reading the date one segment early, from the directory and the year.
parsePathShifted(p) ==
    LET parts == Split(p, "/")
    IN  IF Len(parts) = 2
        THEN [uri |-> <<"/">> \o TrimSuffix(parts[2], TmplExt),
              d |-> ZeroDate, err |-> "nil"]
        ELSE IF Len(parts) = 4
        THEN LET r == getDate(parts[1], parts[2])
             IN  [uri |-> DatedURI(parts), d |-> r.d, err |-> r.err]
        ELSE [uri |-> Empty, d |-> ZeroDate, err |-> "bad template path"]

\* parsePath(p); parts[i] of the code is parts[i+1] here.
parsePath(p) ==
    LET parts == Split(p, "/")
    IN  IF Len(parts) = 2
        THEN [uri |-> <<"/">> \o TrimSuffix(parts[2], TmplExt),
              d |-> ZeroDate, err |-> "nil"]
        ELSE IF Len(parts) = 4
        THEN LET r == getDate(parts[2], parts[3])
             IN  [uri |-> DatedURI(parts), d |-> r.d, err |-> r.err]
        ELSE [uri |-> Empty, d |-> ZeroDate, err |-> "bad template path"]

----------------------------------------------------------------------------
(* The registry *)

\* make(map[string]page)
EmptyPages == [u \in {} |-> u]

\* m[k] = v
Put(m, k, v) == [u \in (DOMAIN m) \cup {k} |-> IF u = k THEN v ELSE m[u]]

\* delete(m, k)
Delete(m, k) == [u \in (DOMAIN m) \ {k} |-> m[u]]

\* page{}: the zero page, which a map read of a missing key yields
ZeroPage ==
    [Title |-> "", Date |-> ZeroDate, URI |-> Empty, Data |-> "nil",
     redirectURI |-> Empty, tmpl |-> NilTmpl]

\* m[k], the zero page for a missing key
Get(m, k) == IF k \in DOMAIN m THEN m[k] ELSE ZeroPage

\* Site.addPage(uri, d, data, tmpls): template.Must panics when one of the
\* files in broken does not parse.
addPage(pgs, uri, d, data, tmpls, broken) ==
    IF Len(tmpls) > 0 /\ \E i \in 1..Len(tmpls) : tmpls[i] \in broken
    THEN [pages |-> pgs, panic |-> TRUE]
    ELSE [pages |-> Put(pgs, uri,
                        [Title |-> SiteTitle, Date |-> d, URI |-> uri, Data |-> data,
                         redirectURI |-> Empty,
                         tmpl |-> IF Len(tmpls) > 0 THEN Compiled(tmpls) ELSE NilTmpl]),
          panic |-> FALSE]

\* Site.getFiles(): g is what filepath.Glob returned.
getFiles(g) ==
    IF g.err THEN [paths |-> <<>>, err |-> "glob"]
    ELSE IF Len(g.paths) = 0 THEN [paths |-> <<>>, err |-> "no pages found"]
    ELSE [paths |-> SelectSeq(g.paths, LAMBDA p : ~Contains(p, DotHash)),
          err |-> "nil"]

\* The loop of Site.read() over the remaining file paths.
RECURSIVE readLoop(_, _, _)
readLoop(filePaths, pgs, broken) ==
    IF filePaths = <<>> THEN [pages |-> pgs, err |-> "nil", panic |-> FALSE]
    ELSE LET tmplPath == Head(filePaths)
             r        == parsePath(tmplPath)
         IN  IF r.err # "nil" THEN [pages |-> pgs, err |-> r.err, panic |-> FALSE]
             ELSE LET a == addPage(pgs, r.uri, r.d, "nil",
                                   Append(SharedTemplates, tmplPath), broken)
                  IN  IF a.panic THEN [pages |-> a.pages, err |-> "nil", panic |-> TRUE]
                      ELSE readLoop(Tail(filePaths), a.pages, broken)

\* Site.read()
read(g, broken) ==
    LET f == getFiles(g)
    IN  IF f.err # "nil" THEN [pages |-> EmptyPages, err |-> f.err, panic |-> FALSE]
        ELSE readLoop(f.paths, EmptyPages, broken)

\* ChangeURI without its delete(s.pages, uri).
ChangeURINoDelete(pgs, uri, newURI) ==
    IF uri \notin DOMAIN pgs THEN [pages |-> pgs, fatal |-> TRUE]
    ELSE LET p == [pgs[uri] EXCEPT !.URI = newURI]
         IN  [pages |-> Put(pgs, newURI, p), fatal |-> FALSE]

\* ChangeURI without its check of ok: a missing uri yields the zero page.
ChangeURINoCheck(pgs, uri, newURI) ==
    LET p == [Get(pgs, uri) EXCEPT !.URI = newURI]
    IN  [pages |-> Put(Delete(pgs, uri), newURI, p), fatal |-> FALSE]

\* ChangeURI without its p.URI = newURI.
ChangeURIKeepField(pgs, uri, newURI) ==
    IF uri \notin DOMAIN pgs THEN [pages |-> pgs, fatal |-> TRUE]
    ELSE [pages |-> Put(Delete(pgs, uri), newURI, pgs[uri]), fatal |-> FALSE]

\* Site.ChangeURI(uri, newURI): the registry after the call, and whether
\* log.Fatalf ended the process.
ChangeURIResult(pgs, uri, newURI) ==
    IF uri \notin DOMAIN pgs THEN [pages |-> pgs, fatal |-> TRUE]
    ELSE LET p == [pgs[uri] EXCEPT !.URI = newURI]
         IN  [pages |-> Put(Delete(pgs, uri), newURI, p), fatal |-> FALSE]

\* Site.AddRedirect(uri, redirectURI)
AddRedirectResult(pgs, uri, redirectURI) ==
    IF uri \in DOMAIN pgs THEN [pages |-> pgs, fatal |-> TRUE]
    ELSE [pages |-> Put(pgs, uri,
                        [Title |-> SiteTitle, Date |-> ZeroDate, URI |-> uri,
                         Data |-> "nil", redirectURI |-> redirectURI,
                         tmpl |-> NilTmpl]),
          fatal |-> FALSE]

\* Register using the bare key as the pattern in both environments.
PatternNoDomain(isDev, uri, p) == uri

\* The pattern Register hands to http.Handle for the entry uri -> p.
Pattern(isDev, uri, p) == IF isDev THEN uri ELSE LiveDomain \o p.URI

\* Site.Register(): the outcomes of the loop over the map, whose order Go
\* leaves open; http.Handle panics on a pattern that is already taken.
RECURSIVE RegisterOutcomes(_, _, _, _)
RegisterOutcomes(isDev, m, pgs, remaining) ==
    IF remaining = {} THEN {[mux |-> m, panic |-> FALSE]}
    ELSE UNION {
           LET pat == Pattern(isDev, uri, pgs[uri])
           IN  IF pat \in DOMAIN m THEN {[mux |-> m, panic |-> TRUE]}
               ELSE RegisterOutcomes(isDev, Put(m, pat, pgs[uri]), pgs,
                                     remaining \ {uri})
           : uri \in remaining }

\* ServeHTTP with the redirect test ahead of the URI test.
ServeHTTPRedirectFirst(p, requestURI, renderErr) ==
    IF p.redirectURI # Empty
    THEN [code |-> StatusFound, location |-> p.redirectURI, body |-> NilTmpl,
          fatal |-> FALSE, panic |-> FALSE]
    ELSE IF p.URI # requestURI
    THEN [code |-> StatusNotFound, location |-> Empty, body |-> NilTmpl,
          fatal |-> FALSE, panic |-> FALSE]
    ELSE IF p.tmpl.nil
    THEN [code |-> 0, location |-> Empty, body |-> NilTmpl,
          fatal |-> FALSE, panic |-> TRUE]
    ELSE IF renderErr
    THEN [code |-> StatusInternalServerError, location |-> Empty, body |-> NilTmpl,
          fatal |-> TRUE, panic |-> FALSE]
    ELSE [code |-> StatusOK, location |-> Empty, body |-> p.tmpl,
          fatal |-> FALSE, panic |-> FALSE]

\* A handler that reads the registry's entry under its pattern on every
\* request, as it would had Register handed http.Handle a pointer.
HandlerPageShared(m, pgs, pat) == IF pat \in DOMAIN pgs THEN pgs[pat] ELSE m[pat]

\* The page a request at pattern pat is served with: http.Handle was given
\* the page by value and ServeHTTP has a value receiver, so it is the copy
\* made by Register, whatever the registry pgs holds by now.
HandlerPage(m, pgs, pat) == m[pat]

\* page.ServeHTTP(w, r): the response to a request with RequestURI
\* requestURI; renderErr is whether ExecuteTemplate fails.
ServeHTTP(p, requestURI, renderErr) ==
    IF p.URI # requestURI
    THEN [code |-> StatusNotFound, location |-> Empty, body |-> NilTmpl,
          fatal |-> FALSE, panic |-> FALSE]
    ELSE IF p.redirectURI # Empty
    THEN [code |-> StatusFound, location |-> p.redirectURI, body |-> NilTmpl,
          fatal |-> FALSE, panic |-> FALSE]
    ELSE IF p.tmpl.nil
    THEN [code |-> 0, location |-> Empty, body |-> NilTmpl,
          fatal |-> FALSE, panic |-> TRUE]
    ELSE IF renderErr
    THEN [code |-> StatusInternalServerError, location |-> Empty, body |-> NilTmpl,
          fatal |-> TRUE, panic |-> FALSE]
    ELSE [code |-> StatusOK, location |-> Empty, body |-> p.tmpl,
          fatal |-> FALSE, panic |-> FALSE]

----------------------------------------------------------------------------
(* Inputs *)

Seg_p == <<"p">>
Seg_q == <<"q">>
A_tmpl == <<"a", ".", "t", "m", "p", "l">>
B_tmpl == <<"b", ".", "t", "m", "p", "l">>
C_tmpl == <<"c", ".", "t", "m", "p", "l">>
C_html == <<"c", ".", "h", "t", "m", "l">>
Lock_tmpl == <<".", "#", "a", ".", "t", "m", "p", "l">>
Y2014 == <<"2", "0", "1", "4">>
Y1900 == <<"1", "9", "0", "0">>
M03 == <<"0", "3">>
M13 == <<"1", "3">>

\* The paths a glob expansion is drawn from in Spec.
Paths ==
    { Join(<<Seg_p, A_tmpl>>, "/"),               \* p/a.tmpl
      Join(<<Seg_q, A_tmpl>>, "/"),               \* q/a.tmpl
      Join(<<Seg_p, Lock_tmpl>>, "/"),            \* p/.#a.tmpl
      Join(<<Seg_p, Y2014, M03, C_tmpl>>, "/"),   \* p/2014/03/c.tmpl
      Join(<<Seg_p, Y1900, M03, C_tmpl>>, "/"),   \* p/1900/03/c.tmpl
      Join(<<Seg_p, Y2014, M13, C_tmpl>>, "/"),   \* p/2014/13/c.tmpl
      Join(<<Seg_p, Y2014, C_tmpl>>, "/") }       \* p/2014/c.tmpl

\* The sequences without repetition of at most n elements of S.
SeqsUpTo(S, n) ==
    UNION { { s \in [1..k -> S] : \A i, j \in 1..k : i # j => s[i] # s[j] }
            : k \in 0..n }

\* What filepath.Glob may return in Spec: an error, or at most MaxFiles paths.
GlobResults ==
    {[err |-> TRUE, paths |-> <<>>]}
        \cup {[err |-> FALSE, paths |-> s] : s \in SeqsUpTo(Paths, MaxFiles)}

\* Year and month segments, on and around the bounds getDate checks.
YearSegs ==
    { Y1900, <<"1", "9", "0", "1">>, Y2014, <<"9", "9", "9", "9", "8">>,
      <<"9", "9", "9", "9", "9">>, <<"2", "0", "x", "4">>, <<"+", "2", "0", "1", "4">>,
      <<"-", "2", "0", "1", "4">>, <<"0", "2", "0", "1", "4">>, Empty,
      <<"9", "9", "9", "9", "9", "9", "9", "9", "9", "9", "9">> }
MonthSegs ==
    { <<"0">>, <<"1">>, M03, <<"1", "2">>, M13, <<"x">>, Empty, <<"-", "1">> }
NameSegs == { A_tmpl, C_html, Lock_tmpl }

\* The single paths a glob expansion is drawn from in SpecParse.
WidePaths ==
    { Join(<<Seg_p, y, m, n>>, "/") : y \in YearSegs, m \in MonthSegs, n \in NameSegs }
        \cup { Join(<<Seg_p, n>>, "/") : n \in NameSegs }
        \cup { A_tmpl, Join(<<Seg_p, Seg_q, A_tmpl>>, "/"),
               Join(<<Seg_p, Seg_q, Y2014, M03, A_tmpl>>, "/") }

WideGlobResults == {[err |-> FALSE, paths |-> <<p>>] : p \in WidePaths}

U_a == <<"/", "a">>
U_b == <<"/", "b">>
U_y == <<"/", "y">>

\* The URIs ChangeURI and AddRedirect are called with.
URIArgs == {U_a, U_b}

\* The redirect targets AddRedirect is called with.
RedirectArgs == {Empty, U_y}

\* The request URIs dispatched to the handler of page p: its URI, its URI
\* with a trailing slash, its URI with a query string.
RequestURIs(p) == {p.URI, p.URI \o <<"/">>, p.URI \o <<"?", "q">>}

Workers == 1..MaxWorkers

Idle == [pc |-> "idle"]

----------------------------------------------------------------------------
(* The state machine *)

Init ==
    /\ status = "start"
    /\ dev \in BOOLEAN
    /\ pages = EmptyPages
    /\ mux = EmptyPages
    /\ reqs = [w \in Workers |-> Idle]
    /\ nOps = 0
    /\ last = [op |-> "none"]

\* New(title, glob, liveDomain, templates), with the glob expansion drawn from globs
NewFrom(globs) ==
    /\ status = "start"
    /\ \E g \in globs :
         \E broken \in SUBSET {g.paths[i] : i \in 1..Len(g.paths)} :
           LET r == read(g, broken)
           IN  /\ pages' = r.pages
               /\ status' = IF r.err # "nil" \/ r.panic THEN "exited" ELSE "running"
               /\ last' = [op |-> "New", glob |-> g, broken |-> broken,
                           err |-> r.err, panic |-> r.panic]
    /\ UNCHANGED <<dev, mux, reqs, nOps>>

New == NewFrom(GlobResults)

NewOne == NewFrom(WideGlobResults)

\* s.ChangeURI(uri, newURI)
ChangeURI ==
    /\ status = "running"
    /\ nOps < MaxOps
    /\ \E uri \in URIArgs \cup DOMAIN pages, newURI \in URIArgs \cup DOMAIN pages :
         LET r == ChangeURIResult(pages, uri, newURI)
         IN  /\ pages' = r.pages
             /\ status' = IF r.fatal THEN "exited" ELSE status
             /\ last' = [op |-> "ChangeURI", uri |-> uri, newURI |-> newURI]
    /\ nOps' = nOps + 1
    /\ UNCHANGED <<dev, mux, reqs>>

\* s.AddRedirect(uri, redirectURI)
AddRedirect ==
    /\ status = "running"
    /\ nOps < MaxOps
    /\ \E uri \in URIArgs \cup DOMAIN pages, redirectURI \in RedirectArgs :
         LET r == AddRedirectResult(pages, uri, redirectURI)
         IN  /\ pages' = r.pages
             /\ status' = IF r.fatal THEN "exited" ELSE status
             /\ last' = [op |-> "AddRedirect", uri |-> uri, redirectURI |-> redirectURI]
    /\ nOps' = nOps + 1
    /\ UNCHANGED <<dev, mux, reqs>>

\* s.Register()
Register ==
    /\ status = "running"
    /\ \E o \in RegisterOutcomes(dev, mux, pages, DOMAIN pages) :
         /\ mux' = o.mux
         /\ status' = IF o.panic THEN "exited" ELSE status
    /\ last' = [op |-> "Register"]
    /\ UNCHANGED <<dev, pages, reqs, nOps>>

\* The server hands worker w a request for the handler at pattern pat; the
\* handler is the page value http.Handle was given, and ServeHTTP's receiver
\* is a copy of it.
Dispatch(w) ==
    /\ status = "running"
    /\ reqs[w].pc # "serving"
    /\ \E pat \in DOMAIN mux :
         \E requestURI \in RequestURIs(mux[pat]) :
           reqs' = [reqs EXCEPT ![w] = [pc |-> "serving", pat |-> pat,
                                        requestURI |-> requestURI,
                                        p |-> HandlerPage(mux, pages, pat)]]
    /\ UNCHANGED <<status, dev, pages, mux, nOps, last>>

\* Worker w runs ServeHTTP to its end.
Respond(w) ==
    /\ status = "running"
    /\ reqs[w].pc = "serving"
    /\ \E renderErr \in BOOLEAN :
         LET r == ServeHTTP(reqs[w].p, reqs[w].requestURI, renderErr)
         IN  /\ reqs' = [reqs EXCEPT ![w] = [pc |-> "done", pat |-> reqs[w].pat,
                                             requestURI |-> reqs[w].requestURI,
                                             p |-> reqs[w].p, resp |-> r]]
             /\ status' = IF r.fatal THEN "exited" ELSE status
    /\ UNCHANGED <<dev, pages, mux, nOps, last>>

Next ==
    \/ New
    \/ ChangeURI
    \/ AddRedirect
    \/ Register
    \/ \E w \in Workers : Dispatch(w)
    \/ \E w \in Workers : Respond(w)

Spec == Init /\ [][Next]_vars

\* parsePath(p) applied to one path, its result kept in last.
ParsePath ==
    /\ status = "start"
    /\ last.op = "none"
    /\ \E p \in WidePaths : last' = [op |-> "parsePath", p |-> p, r |-> parsePath(p)]
    /\ UNCHANGED <<status, dev, pages, mux, reqs, nOps>>

\* parsePath and New on every path shape.
NextParse ==
    \/ ParsePath
    \/ NewOne

SpecParse == Init /\ [][NextParse]_vars

----------------------------------------------------------------------------
(* Vocabulary of the properties *)

\* The step just taken was a call of ChangeURI / AddRedirect.
ChangeURIStep == nOps' = nOps + 1 /\ last'.op = "ChangeURI"
AddRedirectStep == nOps' = nOps + 1 /\ last'.op = "AddRedirect"

\* The step just taken was a call of Register on a Site with no handler wired yet.
FirstRegisterStep == status = "running" /\ mux = EmptyPages /\ last'.op = "Register"

\* The number of segments of path p: one more than its separators.
SegCount(p) == Cardinality({i \in 1..Len(p) : p[i] = "/"}) + 1

\* s is a run of one to nine decimal digits.
IsNumber(s) == Len(s) \in 1..9 /\ \A i \in 1..Len(s) : s[i] \in Digits

\* The value of the run of digits s.
RECURSIVE Dec(_)
Dec(s) == IF s = <<>> THEN 0 ELSE 10 * Dec(SubSeq(s, 1, Len(s) - 1)) + DigitVal(s[Len(s)])

\* s writes an integer: a run of digits, after a sign or not.
IsInt(s) == IsNumber(s) \/ (Len(s) > 1 /\ s[1] \in {"+", "-"} /\ IsNumber(Tail(s)))

\* The integer s writes.
IntVal(s) == IF s[1] = "-" THEN 0 - Dec(Tail(s)) ELSE IF s[1] = "+" THEN Dec(Tail(s)) ELSE Dec(s)

\* y writes an integer strictly between 1900 and 99999; m one in 1..12.
GoodYear(y) == IsInt(y) /\ IntVal(y) > 1900 /\ IntVal(y) < 99999
GoodMonth(m) == IsInt(m) /\ IntVal(m) >= 1 /\ IntVal(m) <= 12

\* The positions of the separators of path p.
Slashes(p) == {i \in 1..Len(p) : p[i] = "/"}

\* Path p is malformed: its segment count is neither 2 nor 4, or it has 4
\* segments and its second is no good year or its third no good month.
Malformed(p) ==
    \/ SegCount(p) \notin {2, 4}
    \/ /\ SegCount(p) = 4
       /\ \E i, j, k \in Slashes(p) :
            /\ i < j
            /\ j < k
            /\ ~(GoodYear(SubSeq(p, i + 1, j - 1)) /\ GoodMonth(SubSeq(p, j + 1, k - 1)))

\* Some path of glob result g that getFiles keeps is malformed.
BadBuildInput(g) ==
    /\ ~g.err
    /\ \E i \in 1..Len(g.paths) : ~Contains(g.paths[i], DotHash) /\ Malformed(g.paths[i])

\* No path of glob result g is left once the paths holding ".#" are dropped.
NoNetMatches(g) ==
    /\ ~g.err
    /\ \A i \in 1..Len(g.paths) : Contains(g.paths[i], DotHash)

\* The URI part of a handler's pattern.
URIPart(pat) == IF dev THEN pat ELSE SubSeq(pat, Len(LiveDomain) + 1, Len(pat))

----------------------------------------------------------------------------
(* C1 *)

\* C1: every response of ServeHTTP follows the fixed order: 404 exactly when
\* the request URI differs from the page's URI (a trailing slash, a query
\* string, a redirect page included); 302 with the redirect target as
\* Location only on an exact match of a page with a redirect target; the
\* template is rendered only on an exact match of a page without one.
C1_ServeOrder ==
    \A w \in Workers :
      reqs[w].pc = "done" =>
        LET q == reqs[w]
        IN  /\ (q.resp.code = StatusNotFound) <=> (q.p.URI # q.requestURI)
            /\ (q.resp.code = StatusFound) <=>
                 (q.p.URI = q.requestURI /\ q.p.redirectURI # Empty)
            /\ q.resp.code = StatusFound => q.resp.location = q.p.redirectURI
            /\ q.resp.code \in {StatusOK, StatusInternalServerError} =>
                 /\ q.p.URI = q.requestURI
                 /\ q.p.redirectURI = Empty
                 /\ ~q.p.tmpl.nil
            /\ q.resp.code = StatusOK => q.resp.body = q.p.tmpl

\* A redirect page answered 404 to its own URI with a query string appended.
C1_Witness ==
    \E w \in Workers :
      /\ reqs[w].pc = "done"
      /\ reqs[w].p.redirectURI # Empty
      /\ reqs[w].requestURI = reqs[w].p.URI \o <<"?", "q">>
      /\ reqs[w].resp.code = StatusNotFound

----------------------------------------------------------------------------
(* C2 *)

\* C2 as stated: after ChangeURI(oldURI, newURI) on a registry holding
\* oldURI, the registry holds newURI, bound to the page that was at oldURI
\* with its URI field newURI and its other fields unchanged, and does not
\* hold oldURI.
C2_Original ==
    [][ (ChangeURIStep /\ last'.uri \in DOMAIN pages) =>
          /\ last'.newURI \in DOMAIN pages'
          /\ pages'[last'.newURI] = [pages[last'.uri] EXCEPT !.URI = last'.newURI]
          /\ last'.uri \notin DOMAIN pages' ]_vars

\* C2 amended: as C2, but the registry does not hold oldURI only when
\* newURI differs from oldURI; ChangeURI(u, u) leaves the page where it is.
C2_ChangeURIMoves ==
    [][ (ChangeURIStep /\ last'.uri \in DOMAIN pages) =>
          /\ status' = "running"
          /\ last'.newURI \in DOMAIN pages'
          /\ pages'[last'.newURI] = [pages[last'.uri] EXCEPT !.URI = last'.newURI]
          /\ last'.newURI # last'.uri => last'.uri \notin DOMAIN pages' ]_vars

\* A page was moved to another URI.
C2_Witness ==
    /\ last.op = "ChangeURI"
    /\ status = "running"
    /\ last.uri # last.newURI
    /\ last.newURI \in DOMAIN pages
    /\ ~pages[last.newURI].tmpl.nil
    /\ pages[last.newURI].URI = last.newURI

----------------------------------------------------------------------------
(* C3 *)

\* C3: every build failure ends the process at that step: New on a glob
\* result with a kept path that is malformed; ChangeURI on a URI the
\* registry lacks and AddRedirect on a URI it holds, both leaving the
\* registry as it was; and once the process has ended no handler is wired
\* and nothing runs again.
C3_NeverHalfBuilt ==
    [][ /\ (status = "start" /\ last'.op = "New" /\ BadBuildInput(last'.glob)) =>
             status' = "exited" /\ mux' = EmptyPages
        /\ (ChangeURIStep /\ last'.uri \notin DOMAIN pages) =>
             status' = "exited" /\ pages' = pages /\ mux' = mux
        /\ (AddRedirectStep /\ last'.uri \in DOMAIN pages) =>
             status' = "exited" /\ pages' = pages /\ mux' = mux
        /\ status = "exited" => status' = "exited" /\ mux' = mux /\ pages' = pages ]_vars

\* A second AddRedirect on the URI of a redirect page ended the process.
C3_Witness ==
    /\ status = "exited"
    /\ last.op = "AddRedirect"
    /\ last.uri \in DOMAIN pages
    /\ pages[last.uri].tmpl.nil
    /\ mux = EmptyPages

----------------------------------------------------------------------------
(* C4 *)

\* C4 as stated: while the process runs, every page of the registry has a
\* compiled template or a non-empty redirect URI and never both, and no
\* request reaches the render step with a nil template.
C4_ExactlyOne ==
    status = "running" =>
      /\ \A u \in DOMAIN pages :
           (~pages[u].tmpl.nil) # (pages[u].redirectURI # Empty)
      /\ \A w \in Workers : reqs[w].pc = "done" => ~reqs[w].resp.panic

----------------------------------------------------------------------------
(* C5 *)

\* C5 as stated: no page is built from a path holding ".#", and New ends
\* the process whenever no path is left after the filtering, rather than
\* return a Site with an empty registry.
C5_NoEmptySite ==
    /\ \A u \in DOMAIN pages :
         \A i \in 1..Len(pages[u].tmpl.files) : ~Contains(pages[u].tmpl.files[i], DotHash)
    /\ (last.op = "New" /\ NoNetMatches(last.glob)) => status = "exited"

----------------------------------------------------------------------------
(* C6 *)

\* The path dir/y/m/name.tmpl is of the dated shape, with a good year and month.
DatedShape(p, dir, y, m, name) ==
    /\ p = dir \o <<"/">> \o y \o <<"/">> \o m \o <<"/">> \o name \o TmplExt
    /\ GoodYear(y)
    /\ GoodMonth(m)

\* For the path of last: parsePath returned uri and the date of y and m, and
\* the page New built from it is registered under uri.
ParsedAs(y, m, uri) ==
    /\ last.op = "parsePath" =>
         /\ last.r.err = "nil"
         /\ last.r.uri = uri
         /\ last.r.d = [Year |-> IntVal(y), Month |-> IntVal(m)]
    /\ (last.op = "New" /\ last.broken = {} /\ ~Contains(last.glob.paths[1], DotHash)) =>
         /\ status = "running"
         /\ DOMAIN pages = {uri}
         /\ pages[uri].URI = uri
         /\ pages[uri].Date = [Year |-> IntVal(y), Month |-> IntVal(m)]

\* The path parsePath or New was last given.
LastPath == IF last.op = "parsePath" THEN last.p ELSE last.glob.paths[1]

Names == {TrimSuffix(n, TmplExt) : n \in {n \in NameSegs : HasSuffix(n, TmplExt)}}

\* C6 as stated: for dir/yyyy/mm/name.tmpl with 1900 < yyyy < 99999 and
\* 1 <= mm <= 12, parsePath returns /dir/yyyy/mm/name and Date{yyyy, mm}, and
\* read() registers the page under that URI.
C6_Original ==
    last.op \in {"parsePath", "New"} =>
      \A y \in YearSegs, m \in MonthSegs, name \in Names :
        DatedShape(LastPath, Seg_p, y, m, name) =>
          ParsedAs(y, m, <<"/">> \o Join(<<Seg_p, y, m, name>>, "/"))

\* C6 amended: for such a path parsePath returns /yyyy/mm/name, without the
\* directory, and Date{yyyy, mm}, and read() registers the page under that
\* URI (when the path is one getFiles keeps and its template compiles).
C6_DatedPath ==
    last.op \in {"parsePath", "New"} =>
      \A y \in YearSegs, m \in MonthSegs, name \in Names :
        DatedShape(LastPath, Seg_p, y, m, name) =>
          ParsedAs(y, m, <<"/">> \o Join(<<y, m, name>>, "/"))

\* New registered the page of p/99998/12/a.tmpl.
C6_Witness ==
    /\ last.op = "New"
    /\ status = "running"
    /\ DatedShape(last.glob.paths[1], Seg_p, <<"9", "9", "9", "9", "8">>, <<"1", "2">>, <<"a">>)
    /\ DOMAIN pages = {<<"/", "9", "9", "9", "9", "8", "/", "1", "2", "/", "a">>}

----------------------------------------------------------------------------
(* C7 *)

\* C7: the first Register on a running Site wires, without a panic, exactly
\* one handler per page of the registry, at the page's URI field in
\* development and at the live domain followed by the page's URI field when
\* live; the handler is that page, and it does not answer 404 to a request
\* for the URI part of its pattern.
C7_RegisterWires ==
    [][ FirstRegisterStep =>
          /\ status' = "running"
          /\ Cardinality(DOMAIN mux') = Cardinality(DOMAIN pages)
          /\ \A u \in DOMAIN pages :
               LET pat == IF dev THEN pages[u].URI ELSE LiveDomain \o pages[u].URI
               IN  /\ pat \in DOMAIN mux'
                   /\ mux'[pat] = pages[u]
                   /\ ServeHTTP(mux'[pat], URIPart(pat), FALSE).code # StatusNotFound ]_vars

\* Register wired two handlers on a live Site one of whose pages was moved.
C7_Witness ==
    /\ last.op = "Register"
    /\ status = "running"
    /\ ~dev
    /\ nOps > 0
    /\ Cardinality(DOMAIN mux) = 2
    /\ \E u \in DOMAIN pages : pages[u].redirectURI # Empty

----------------------------------------------------------------------------
(* C8 *)

----------------------------------------------------------------------------
(* C9 *)

\* C9 as stated: a call of ChangeURI or AddRedirect that does not end the
\* process never lowers the number of pages in the registry, and ChangeURI
\* leaves every entry but the moved one as it was.
C9_NoPageLost ==
    [][ ((ChangeURIStep \/ AddRedirectStep) /\ status' = "running") =>
          /\ Cardinality(DOMAIN pages') >= Cardinality(DOMAIN pages)
          /\ ChangeURIStep =>
               \A u \in DOMAIN pages \ {last'.uri} :
                 u \in DOMAIN pages' /\ pages'[u] = pages[u] ]_vars

----------------------------------------------------------------------------
(* C10 *)

\* C10: every key of the registry is the URI field of the page under it, so
\* that in development every handler's pattern is its page's URI field.
C10_KeyIsURI ==
    /\ \A u \in DOMAIN pages : pages[u].URI = u
    /\ dev => \A pat \in DOMAIN mux : mux[pat].URI = pat

\* A handler is wired in development for a page that ChangeURI moved.
C10_Witness ==
    /\ dev
    /\ status = "running"
    /\ nOps > 0
    /\ \E pat \in DOMAIN mux :
         /\ ~mux[pat].tmpl.nil
         /\ mux[pat].Date = ZeroDate
         /\ mux[pat].URI = U_b

====
